---- MODULE Spec2Model ----
(***************************************************************************)
(* Weather dashboard for an e-paper display (main.py): the update cycle    *)
(* fetch -> decide -> render -> screenshot -> display, the change          *)
(* detector data_changed, and the polling loop of __main__ that reloads    *)
(* config.json, follows airport changes and runs timer-driven updates.     *)
(***************************************************************************)
EXTENDS Integers, Sequences, FiniteSets, TLC

(***************************************************************************)
(* Bounds of the model.                                                    *)
(***************************************************************************)
\* observation timestamps the weather source may report: 1..MaxTime
MaxTime == 2
\* update_interval values of config.json, in units of one loop sleep: 0..MaxInterval
MaxInterval == 1

(***************************************************************************)
(* Values.                                                                 *)
(***************************************************************************)
\* Python's None
None == [isNone |-> TRUE]

\* a request that raised (timeout, connection error, body that is not JSON)
Failed == [failed |-> TRUE]

\* airport identifiers an operator may put in config.json
Stations == {"KSKA", "KJFK"}

StationName(a) == IF a = "KSKA" THEN "Fairchild AFB" ELSE "John F Kennedy Intl"

(***************************************************************************)
(* fetch_weather: the three lookups and the extraction of the snapshot.    *)
(***************************************************************************)
\* keys of the METAR payload that lines 93-129 subscript
RequiredKeys ==
    {"wind_direction", "altimeter", "wx_codes", "clouds", "time", "station",
     "flight_rules", "visibility", "temperature", "dewpoint", "wind_speed",
     "wind_gust", "pressure_altitude", "density_altitude"}

\* f"{winddir:03d}" as its three digits
Pad3(n) == <<n \div 100, (n \div 10) % 10, n % 10>>

\* f"{pressure:.2f}", the pressure given in thousandths: integer part, two decimals
Fmt2f(p) ==
    LET h == (p + 5) \div 10
    IN  <<h \div 100, ".", (h % 100) \div 10, h % 10>>

\* mutant of ArptNameOf: a fixed text instead of the requested identifier
ArptNameOf_fixed_text(airport, station) ==
    IF station = Failed \/ "name" \notin DOMAIN station
    THEN "Unknown"
    ELSE station.name

\* lines 77-82: the station name, or the requested identifier when the lookup
\* raised or the payload has no "name"
ArptNameOf(airport, station) ==
    IF station = Failed \/ "name" \notin DOMAIN station
    THEN airport
    ELSE station.name

\* lines 85-90: the sanitized TAF lines, or the placeholder when the lookup
\* raised, the payload has no "forecast" or a line has no "sanitized"
TafRawOf(taf) ==
    IF \/ taf = Failed
       \/ "forecast" \notin DOMAIN taf
       \/ \E i \in DOMAIN taf.forecast : "sanitized" \notin DOMAIN taf.forecast[i]
    THEN <<"TAF not available">>
    ELSE [i \in DOMAIN taf.forecast |-> taf.forecast[i].sanitized]

\* keys of a JSON object whose value is null: the object lists them under "null"
NullKeys(obj) == IF "null" \in DOMAIN obj THEN obj.null ELSE {}

\* layer.get("altitude", 999), for a layer whose altitude is not null
LayerAltitude(layer) ==
    IF "altitude" \in DOMAIN layer THEN layer.altitude ELSE 999

\* line 106: any(layer.get("altitude", 999) < 100 for layer in clouds) from the
\* i-th layer on; any() stops at the first low layer, and comparing a null
\* altitude with 100 raises TypeError
RECURSIVE AnyLowCloud(_, _)
AnyLowCloud(clouds, i) ==
    IF i > Len(clouds) THEN "False"
    ELSE IF "altitude" \in NullKeys(clouds[i]) THEN "TypeError"
    ELSE IF LayerAltitude(clouds[i]) < 100 THEN "True"
    ELSE AnyLowCloud(clouds, i + 1)

\* lines 104-105: "not maincode", true of an empty list and of an empty value
NoMainCode(metar) ==
    IF metar.wx_codes /= <<>> THEN metar.wx_codes[1].value = "" ELSE TRUE

\* lines 103-107: the first weather code's value, else CLOUDY / SKY CLEAR
\* by the cloud layers
MainCode(metar) ==
    IF NoMainCode(metar)
    THEN IF AnyLowCloud(metar.clouds, 1) = "True" THEN "CLOUDY" ELSE "SKY CLEAR"
    ELSE metar.wx_codes[1].value

\* keys of the METAR payload whose value lines 93-129 subscript again
\* (["value"], ["repr"], ["dt"]): a null there raises TypeError
SubscriptedKeys ==
    {"wind_direction", "altimeter", "time", "visibility", "temperature",
     "dewpoint", "wind_speed"}

\* lines 93-130 raise (KeyError, TypeError) on this METAR payload
ExtractRaises(metar) ==
    \/ ~(RequiredKeys \subseteq DOMAIN metar)
    \/ \E k \in SubscriptedKeys : metar[k] = None
    \/ NoMainCode(metar) /\ AnyLowCloud(metar.clouds, 1) = "TypeError"

\* lines 111-130: the snapshot dictionary
Snapshot(airport, metar, station, taf) ==
    [arpt     |-> metar.station,
     ArptName |-> ArptNameOf(airport, station),
     rules    |-> metar.flight_rules,
     vis      |-> metar.visibility.repr,
     cig      |-> [i \in DOMAIN metar.clouds |-> metar.clouds[i].repr],
     px       |-> Fmt2f(metar.altimeter.value),
     temp     |-> metar.temperature.value,
     dewpt    |-> metar.dewpoint.value,
     wind     |-> metar.wind_speed.value,
     gust     |-> metar.wind_gust,
     winddir  |-> Pad3(metar.wind_direction.value),
     aarowdir |-> <<(metar.wind_direction.value + 180) % 360, "deg">>,
     wxcode   |-> [i \in DOMAIN metar.wx_codes |-> metar.wx_codes[i].repr],
     pa       |-> metar.pressure_altitude,
     da       |-> metar.density_altitude,
     obs      |-> MainCode(metar),
     tafraw   |-> TafRawOf(taf),
     time     |-> <<metar.time.dt, "UTC">>]

\* fetch_weather, given the three responses: Failed when the METAR request
\* raised or the extraction raises, else the snapshot
fetch_weather(airport, metar, station, taf) ==
    IF metar = Failed \/ ExtractRaises(metar)
    THEN Failed
    ELSE Snapshot(airport, metar, station, taf)

(***************************************************************************)
(* data_changed.                                                           *)
(***************************************************************************)
\* the keys of a snapshot in the order the dictionary is built (lines 112-129)
SnapshotKeys ==
    <<"arpt", "ArptName", "rules", "vis", "cig", "px", "temp", "dewpt", "wind",
      "gust", "winddir", "aarowdir", "wxcode", "pa", "da", "obs", "tafraw", "time">>

\* dict.get(key): None for a key the dictionary does not have
Get(d, key) == IF key \in DOMAIN d THEN d[key] ELSE None

\* mutant of ScanKeys: "return False" sits inside the loop, after the if
ScanKeys_return_in_loop(keys, i, new_data, last) ==
    new_data[keys[i]] /= Get(last, keys[i])

\* the loop of lines 216-222 from the i-th key on
RECURSIVE ScanKeys(_, _, _, _)
ScanKeys(keys, i, new_data, last) ==
    IF i > Len(keys) THEN FALSE
    ELSE IF keys[i] = "time" THEN ScanKeys(keys, i + 1, new_data, last)
    ELSE IF new_data[keys[i]] /= Get(last, keys[i]) THEN TRUE
    ELSE ScanKeys(keys, i + 1, new_data, last)

\* mutant of data_changed: the timestamp is compared like any other field
data_changed_with_time(last, new_data) ==
    IF last = None THEN TRUE ELSE new_data /= last

\* data_changed(new_data) with LAST_DATA = last
data_changed(last, new_data) ==
    IF last = None THEN TRUE ELSE ScanKeys(SnapshotKeys, 1, new_data, last)

(***************************************************************************)
(* The weather source and config.json: what the environment may hand to    *)
(* the program.                                                            *)
(***************************************************************************)
\* weather-code lists of an observation
WxLists == {<<[repr |-> "RA", value |-> "Rain"]>>}

\* a complete METAR payload for station a
MetarPayload(a, wx, t) ==
    [station           |-> a,
     flight_rules      |-> "VFR",
     visibility        |-> [repr |-> "10"],
     clouds            |-> <<[repr |-> "FEW050", altitude |-> 50]>>,
     altimeter         |-> [value |-> 29921],
     temperature       |-> [value |-> 12],
     dewpoint          |-> [value |-> 7],
     wind_speed        |-> [value |-> 8],
     wind_gust         |-> None,
     wind_direction    |-> [value |-> 40],
     wx_codes          |-> wx,
     pressure_altitude |-> 2400,
     density_altitude  |-> 2600,
     time              |-> [dt |-> t]]

\* an error body: JSON, but none of the keys of an observation
ErrorPayload == [error |-> "not found"]

\* JSON bodies the METAR lookup may return for station a
MetarPayloads(a) ==
    {MetarPayload(a, wx, t) : wx \in WxLists, t \in 1..MaxTime} \cup {ErrorPayload}

\* outcomes of the station lookup for station a
StationResponses(a) == {Failed, [name |-> StationName(a)]}

\* outcomes of the TAF lookup
TafResponses == {Failed, [forecast |-> <<[sanitized |-> "FM1200 04008KT P6SM"]>>]}

\* a well-formed config.json
ValidConfigs ==
    [airport : Stations, update_interval : 0..MaxInterval, auto_update : BOOLEAN]

\* config.json that json.load rejects (unreadable, truncated, not JSON)
Malformed == [malformed |-> TRUE]

\* config.json that is JSON but has no "airport"
NoAirport == [update_interval |-> 0, auto_update |-> TRUE]

ConfigFiles == ValidConfigs \cup {Malformed, NoAirport}

(***************************************************************************)
(* State.                                                                  *)
(***************************************************************************)
VARIABLES
    pc,               \* where the process is: see the actions
    LAST_DATA,        \* main.py:28, the cache of the last displayed data
    cachedFor,        \* history: the airport update() was called for when it wrote LAST_DATA
    current_airport,  \* main.py:277
    last_update_age,  \* sleeps since last_update_time was set, capped at MaxInterval
    HAS_DISPLAY,      \* main.py:32-36
    cfgFile,          \* the contents of config.json
    pending,          \* update() calls the current pass of the loop has still to make
    upd,              \* the running update(): arguments, caller and locals
    cyc,              \* history of the running / just returned update cycle
    prev,             \* history of the cycle before it, if it completed display()
    lastShown,        \* history: data of the last cycle that completed display()
    unserved,         \* history: an airport change was seen, no fetch succeeded since
    passUpdates,      \* history: update() calls in the current pass of the loop
    clear_invoked,    \* history: clear_display() was called
    exit              \* Running, or how and where the process ended

vars ==
    <<pc, LAST_DATA, cachedFor, current_airport, last_update_age, HAS_DISPLAY, cfgFile,
      pending, upd, cyc, prev, lastShown, unserved, passUpdates, clear_invoked,
      exit>>

\* no update() is running
NoUpdate == [running |-> FALSE]

\* no cycle has run yet
NoCycle == [outcome |-> "none"]

\* the process has not ended
Running == [cause |-> "running", at |-> "-", caller |-> "-"]

\* positions inside update()
FetchPcs == {"metar", "station", "taf"}
UpdatePcs == FetchPcs \cup {"decide", "render", "screenshot", "display"}

Init ==
    /\ pc = "initial"
    /\ LAST_DATA = None
    /\ cachedFor = "-"
    /\ cfgFile \in ValidConfigs
    /\ pending = <<>>
    /\ current_airport = cfgFile.airport
    /\ last_update_age = 0
    /\ HAS_DISPLAY = TRUE   \* the driver imported; without it display() only returns
    /\ upd = NoUpdate
    /\ cyc = NoCycle
    /\ prev = NoCycle
    /\ lastShown = None
    /\ unserved = FALSE
    /\ passUpdates = 0
    /\ clear_invoked = FALSE
    /\ exit = Running

(***************************************************************************)
(* update(airport, force_refresh).                                         *)
(***************************************************************************)
\* the "airport" of config.json, "?" when the file has none
TargetOf(file) == IF "airport" \in DOMAIN file THEN file.airport ELSE "?"

\* the call update(airport, force_refresh) from `caller`
BeginUpdate(airport, force_refresh, caller) ==
    /\ pc' = "metar"
    /\ upd' = [running |-> TRUE, airport |-> airport, force_refresh |-> force_refresh,
               caller |-> caller, metar |-> None, station |-> None, data |-> None]
    /\ cyc' = [outcome |-> "running", airport |-> airport,
               nRender |-> 0, nShot |-> 0, nDisplay |-> 0,
               startData |-> LAST_DATA', fetchOk |-> FALSE,
               onTarget |-> (TargetOf(cfgFile) = airport), stale |-> FALSE]
    /\ passUpdates' = passUpdates + 1

\* mutant of DataAfterCycle: the cache is written before display() is called
DataAfterCycle_before_display(outcome, last, data) ==
    IF outcome \in {"complete", "display_error"} THEN data ELSE last

\* mutant of DataAfterCycle: the cache is written before the skip of line 237
DataAfterCycle_on_skip(outcome, last, data) ==
    IF outcome \in {"complete", "skipped"} THEN data ELSE last

\* lines 237-257: LAST_DATA when update() returns: line 252 is reached only
\* when display() has returned; the skip of line 239, the return of line 246
\* and the except clause of line 256 leave it alone
DataAfterCycle(outcome, last, data) ==
    IF outcome = "complete" THEN data ELSE last

\* update() returns to its caller with this outcome (return, or the except
\* clause of line 256); c is the history of the cycle
EndUpdate(outcome, c) ==
    /\ pc' = "returned"
    /\ cyc' = [c EXCEPT !.outcome = outcome]
    /\ LAST_DATA' = DataAfterCycle(outcome, LAST_DATA, upd.data)
    /\ cachedFor' = IF outcome = "complete" THEN upd.airport ELSE cachedFor

\* line 73: the METAR request raises
FetchMetarRaises ==
    /\ pc = "metar"
    /\ EndUpdate("fetch_error", cyc)
    /\ UNCHANGED <<current_airport, last_update_age, HAS_DISPLAY,
                   cfgFile, pending, upd, prev, lastShown, unserved, passUpdates, clear_invoked, exit>>

\* line 73: the METAR request returns a JSON body
FetchMetar ==
    /\ pc = "metar"
    /\ \E m \in MetarPayloads(upd.airport) : upd' = [upd EXCEPT !.metar = m]
    /\ pc' = "station"
    /\ UNCHANGED <<LAST_DATA, cachedFor, current_airport, last_update_age, HAS_DISPLAY,
                   cfgFile, pending, cyc, prev, lastShown, unserved, passUpdates, clear_invoked, exit>>

\* lines 77-82: the station lookup, whatever its outcome
FetchStation ==
    /\ pc = "station"
    /\ \E st \in StationResponses(upd.airport) : upd' = [upd EXCEPT !.station = st]
    /\ pc' = "taf"
    /\ UNCHANGED <<LAST_DATA, cachedFor, current_airport, last_update_age, HAS_DISPLAY,
                   cfgFile, pending, cyc, prev, lastShown, unserved, passUpdates, clear_invoked, exit>>

\* lines 85-130 with the TAF response taf: fetch_weather returns or raises
FinishFetch(taf) ==
    LET data == fetch_weather(upd.airport, upd.metar, upd.station, taf)
    IN  IF data = Failed
        THEN /\ EndUpdate("fetch_error", cyc)
             /\ upd' = upd
        ELSE /\ pc' = "decide"
             /\ LAST_DATA' = LAST_DATA
             /\ cachedFor' = cachedFor
             /\ upd' = [upd EXCEPT !.data = data, !.metar = None, !.station = None]
             /\ cyc' = [cyc EXCEPT !.fetchOk = TRUE,
                                   !.stale = /\ cyc.onTarget
                                             /\ TargetOf(cfgFile) \in Stations
                                             /\ TargetOf(cfgFile) /= upd.airport]

\* lines 85-130: the TAF lookup, whatever its outcome, and the extraction
FetchTaf ==
    /\ pc = "taf"
    /\ \E taf \in TafResponses : FinishFetch(taf)
    /\ UNCHANGED <<current_airport, last_update_age, HAS_DISPLAY,
                   cfgFile, pending, prev, lastShown, unserved, passUpdates, clear_invoked, exit>>

\* mutant of ShouldRender: the cycle never skips
ShouldRender_always(force_refresh, last, data) == TRUE

\* line 237: the cycle goes on to render ("and" and "not" short-circuit:
\* data_changed is not called on a forced refresh)
ShouldRender(force_refresh, last, data) ==
    force_refresh \/ data_changed(last, data)

\* lines 237-239
Decide ==
    /\ pc = "decide"
    /\ IF ShouldRender(upd.force_refresh, LAST_DATA, upd.data)
       THEN /\ pc' = "render"
            /\ cyc' = cyc
            /\ LAST_DATA' = LAST_DATA
            /\ cachedFor' = cachedFor
       ELSE EndUpdate("skipped", cyc)
    /\ UNCHANGED <<current_airport, last_update_age, HAS_DISPLAY,
                   cfgFile, pending, upd, prev, lastShown, unserved, passUpdates, clear_invoked, exit>>

\* line 242: render_html(data) writes the page, or raises
RenderHtml ==
    /\ pc = "render"
    /\ LET c == [cyc EXCEPT !.nRender = @ + 1]
       IN  \/ /\ pc' = "screenshot"
              /\ cyc' = c
              /\ LAST_DATA' = LAST_DATA
              /\ cachedFor' = cachedFor
           \/ EndUpdate("render_error", c)
    /\ UNCHANGED <<current_airport, last_update_age, HAS_DISPLAY,
                   cfgFile, pending, upd, prev, lastShown, unserved, passUpdates, clear_invoked, exit>>

\* lines 245-246: screenshot() returns True, returns False (timeout, chromium
\* missing or failing, no PNG), or raises (the image cannot be opened or saved)
Screenshot ==
    /\ pc = "screenshot"
    /\ LET c == [cyc EXCEPT !.nShot = @ + 1]
       IN  \/ /\ pc' = "display"
              /\ cyc' = c
              /\ LAST_DATA' = LAST_DATA
              /\ cachedFor' = cachedFor
           \/ EndUpdate("screenshot_failed", c)
           \/ EndUpdate("screenshot_error", c)
    /\ UNCHANGED <<current_airport, last_update_age, HAS_DISPLAY,
                   cfgFile, pending, upd, prev, lastShown, unserved, passUpdates, clear_invoked, exit>>

\* lines 249-254: display() returns (a no-op without hardware) and the data is cached
Display ==
    /\ pc = "display"
    /\ EndUpdate("complete", [cyc EXCEPT !.nDisplay = @ + 1])
    /\ lastShown' = upd.data
    /\ UNCHANGED <<current_airport, last_update_age, HAS_DISPLAY, cfgFile, pending,
                   upd, prev, unserved, passUpdates, clear_invoked, exit>>

\* line 249: the display driver raises (lines 202-206)
DisplayRaises ==
    /\ pc = "display"
    /\ HAS_DISPLAY
    /\ EndUpdate("display_error", [cyc EXCEPT !.nDisplay = @ + 1])
    /\ UNCHANGED <<current_airport, last_update_age, HAS_DISPLAY,
                   cfgFile, pending, upd, prev, lastShown, unserved, passUpdates, clear_invoked, exit>>

(***************************************************************************)
(* __main__: the initial update and the polling loop.                      *)
(***************************************************************************)
\* what is kept of the last cycle once update() has returned: its airport,
\* its data and how often it rendered and displayed if it completed display()
Summary(c, data) ==
    IF c.outcome = "complete"
    THEN [outcome |-> c.outcome, airport |-> c.airport,
          nRender |-> c.nRender, nShot |-> c.nShot, nDisplay |-> c.nDisplay,
          shown |-> data]
    ELSE NoCycle

\* line 288: update(current_airport, force_refresh=True)
InitialUpdate ==
    /\ pc = "initial"
    /\ LAST_DATA' = LAST_DATA
    /\ cachedFor' = cachedFor
    /\ BeginUpdate(current_airport, TRUE, "initial")
    /\ UNCHANGED <<current_airport, last_update_age, HAS_DISPLAY, cfgFile, pending,
                   prev, lastShown, unserved, clear_invoked, exit>>

\* mutant of TimerDue: the interval must be exceeded, not reached
TimerDue_strict(config, age) ==
    /\ age > config.update_interval
    /\ config.auto_update

\* lines 308-313: the interval has elapsed and auto_update is on
TimerDue(config, age) ==
    /\ age >= config.update_interval
    /\ config.auto_update

\* mutant of PassPlan: line 306 is an if of its own, not an else
PassPlan_no_else(changed, due) ==
    (IF changed THEN <<"change">> ELSE <<>>) \o (IF due THEN <<"timer">> ELSE <<>>)

\* lines 300-315: the update() calls of one pass of the loop, by the branch
\* taken: the if of line 300 ("change"), or else the timer of lines 312-314
PassPlan(changed, due) ==
    IF changed THEN <<"change">>
    ELSE IF due THEN <<"timer">>
    ELSE <<>>

\* lines 304 and 314: update(current_airport, force_refresh=True) on an
\* airport change, update(current_airport) on the timer
CallUpdate(airport, branch) ==
    BeginUpdate(airport, branch = "change", branch)

\* lines 291, 305, 315: update() has returned, last_update_time = time.time();
\* after the initial update the loop is entered, in the loop the pass goes on
ReturnFromUpdate ==
    /\ pc = "returned"
    /\ last_update_age' = 0
    /\ prev' = Summary(cyc, upd.data)
    /\ unserved' = (unserved /\ ~cyc.fetchOk)
    /\ LAST_DATA' = LAST_DATA
    /\ cachedFor' = cachedFor
    /\ IF upd.caller /= "initial" /\ pending /= <<>>
       THEN /\ CallUpdate(current_airport, Head(pending))
            /\ pending' = Tail(pending)
       ELSE /\ pc' = IF upd.caller = "initial" THEN "load_config" ELSE "sleep"
            /\ passUpdates' = IF upd.caller = "initial" THEN 0 ELSE passUpdates
            /\ cyc' = NoCycle
            /\ upd' = NoUpdate
            /\ pending' = pending
    /\ UNCHANGED <<current_airport, HAS_DISPLAY, cfgFile, lastShown, clear_invoked,
                   exit>>

\* the process ends: its variables are gone, config.json stays
ProcessEnds(cause) ==
    /\ pc' = "exited"
    /\ exit' = [cause |-> cause, at |-> pc,
                caller |-> IF upd = NoUpdate THEN "-" ELSE upd.caller]
    /\ LAST_DATA' = None
    /\ cachedFor' = "-"
    /\ last_update_age' = 0
    /\ pending' = <<>>
    /\ upd' = NoUpdate
    /\ cyc' = NoCycle
    /\ prev' = NoCycle
    /\ lastShown' = None
    /\ unserved' = FALSE
    /\ passUpdates' = 0
    /\ UNCHANGED <<current_airport, HAS_DISPLAY, cfgFile>>

\* an exception nothing catches ends the process with a traceback
Crash ==
    /\ ProcessEnds("crash")
    /\ UNCHANGED clear_invoked

\* line 297: json.load raises on the file (lines 51-52)
LoadConfigRaises ==
    /\ pc = "load_config"
    /\ cfgFile = Malformed
    /\ Crash

\* lines 297-300: the file loads, config["airport"] raises KeyError
ConfigKeyError ==
    /\ pc = "load_config"
    /\ cfgFile = NoAirport
    /\ Crash

\* mutant of CacheOnPass: line 303 is missing
CacheOnPass_kept(changed, last) == last

\* mutant of CacheOnPass: the test of line 300 is inverted
CacheOnPass_inverted(changed, last) == IF changed THEN last ELSE None

\* line 303: an airport change clears the cache
CacheOnPass(changed, last) == IF changed THEN None ELSE last

\* lines 297-315 for the loaded config, which has an "airport"
LoopPass(config) ==
    LET changed == config.airport /= current_airport
        plan    == PassPlan(changed, TimerDue(config, last_update_age))
    IN  /\ current_airport' = config.airport
        /\ unserved' = (unserved \/ changed)
        /\ LAST_DATA' = CacheOnPass(changed, LAST_DATA)
        /\ cachedFor' = IF CacheOnPass(changed, LAST_DATA) = None THEN "-" ELSE cachedFor
        /\ IF plan = <<>>
           THEN /\ pc' = "sleep"
                /\ UNCHANGED <<upd, cyc, passUpdates, pending>>
           ELSE /\ CallUpdate(config.airport, Head(plan))
                /\ pending' = Tail(plan)

\* lines 297-305: the loaded airport differs from current_airport
AirportChanged ==
    /\ pc = "load_config"
    /\ cfgFile \in ValidConfigs
    /\ cfgFile.airport /= current_airport
    /\ LoopPass(cfgFile)
    /\ UNCHANGED <<last_update_age, HAS_DISPLAY, cfgFile, prev, lastShown,
                   clear_invoked, exit>>

\* lines 297-300, 306-315: the airport is unchanged and the timer is due
TimerUpdate ==
    /\ pc = "load_config"
    /\ cfgFile \in ValidConfigs
    /\ cfgFile.airport = current_airport
    /\ TimerDue(cfgFile, last_update_age)
    /\ LoopPass(cfgFile)
    /\ UNCHANGED <<last_update_age, HAS_DISPLAY, cfgFile, prev, lastShown,
                   clear_invoked, exit>>

\* lines 297-300, 306-313: the airport is unchanged and the timer is not due
TimerIdle ==
    /\ pc = "load_config"
    /\ cfgFile \in ValidConfigs
    /\ cfgFile.airport = current_airport
    /\ ~TimerDue(cfgFile, last_update_age)
    /\ LoopPass(cfgFile)
    /\ UNCHANGED <<last_update_age, HAS_DISPLAY, cfgFile, prev, lastShown,
                   clear_invoked, exit>>

\* line 318: time.sleep(config_check_interval), then the next pass
Sleep ==
    /\ pc = "sleep"
    /\ last_update_age' = IF last_update_age < MaxInterval
                          THEN last_update_age + 1 ELSE last_update_age
    /\ passUpdates' = 0
    /\ pc' = "load_config"
    /\ UNCHANGED <<LAST_DATA, cachedFor, current_airport, HAS_DISPLAY, cfgFile, pending,
                   upd, cyc, prev, lastShown, unserved, clear_invoked, exit>>

(***************************************************************************)
(* KeyboardInterrupt.                                                      *)
(***************************************************************************)
\* the process is inside the try of lines 294-320
InTry ==
    \/ pc \in {"load_config", "sleep"}
    \/ pc \in UpdatePcs \cup {"returned"} /\ upd.caller /= "initial"

\* KeyboardInterrupt is no Exception: line 256 does not catch it. Inside the
\* try of line 294 the handler of lines 320-322 calls clear_display();
\* outside it the process ends with a traceback
Interrupt ==
    /\ pc /= "exited"
    /\ IF InTry
       THEN /\ clear_invoked' = TRUE
            /\ ProcessEnds("shutdown")
       ELSE /\ clear_invoked' = clear_invoked
            /\ ProcessEnds("interrupt")

\* lines 77-82: the bare except catches a KeyboardInterrupt raised during the
\* station lookup; the fetch goes on with the fallback name
InterruptInStation ==
    /\ pc = "station"
    /\ upd' = [upd EXCEPT !.station = Failed]
    /\ pc' = "taf"
    /\ UNCHANGED <<LAST_DATA, cachedFor, current_airport, last_update_age, HAS_DISPLAY,
                   cfgFile, pending, cyc, prev, lastShown, unserved, passUpdates, clear_invoked, exit>>

\* lines 85-90: the bare except catches a KeyboardInterrupt raised during the
\* TAF lookup; the fetch goes on with the placeholder
InterruptInTaf ==
    /\ pc = "taf"
    /\ FinishFetch(Failed)
    /\ UNCHANGED <<current_airport, last_update_age, HAS_DISPLAY,
                   cfgFile, pending, prev, lastShown, unserved, passUpdates, clear_invoked, exit>>

(***************************************************************************)
(* The operator edits config.json.                                         *)
(***************************************************************************)
EditConfig ==
    /\ pc /= "exited"
    /\ \E f \in ConfigFiles \ {cfgFile} : cfgFile' = f
    /\ UNCHANGED <<pc, LAST_DATA, cachedFor, current_airport, last_update_age,
                   HAS_DISPLAY, pending, upd, cyc, prev, lastShown, unserved, passUpdates,
                   clear_invoked, exit>>

Next ==
    \/ InitialUpdate
    \/ FetchMetarRaises
    \/ FetchMetar
    \/ FetchStation
    \/ FetchTaf
    \/ Decide
    \/ RenderHtml
    \/ Screenshot
    \/ Display
    \/ DisplayRaises
    \/ ReturnFromUpdate
    \/ LoadConfigRaises
    \/ ConfigKeyError
    \/ AirportChanged
    \/ TimerUpdate
    \/ TimerIdle
    \/ Sleep
    \/ Interrupt
    \/ InterruptInStation
    \/ InterruptInTaf
    \/ EditConfig

Spec == Init /\ [][Next]_vars

(***************************************************************************)
(* data_changed on its own: every pair of a cached and a new snapshot.     *)
(***************************************************************************)
\* METAR payloads that differ from one another in one key each
VariedMetars(a, t) ==
    LET m == MetarPayload(a, <<[repr |-> "RA", value |-> "Rain"]>>, t)
    IN  {m,
         [m EXCEPT !.flight_rules = "IFR"],
         [m EXCEPT !.visibility = [repr |-> "5"]],
         [m EXCEPT !.clouds = <<>>],
         [m EXCEPT !.clouds = <<[repr |-> "FEW050", altitude |-> 50],
                                [repr |-> "BKN120", altitude |-> 120]>>],
         [m EXCEPT !.clouds = <<[repr |-> "BKN120", altitude |-> 120],
                                [repr |-> "FEW050", altitude |-> 50]>>],
         [m EXCEPT !.altimeter = [value |-> 29924]],
         [m EXCEPT !.altimeter = [value |-> 30010]],
         [m EXCEPT !.temperature = [value |-> 13]],
         [m EXCEPT !.dewpoint = [value |-> 8]],
         [m EXCEPT !.wind_speed = [value |-> 9]],
         [m EXCEPT !.wind_gust = [repr |-> "25", value |-> 25]],
         [m EXCEPT !.wind_direction = [value |-> 220]],
         [m EXCEPT !.wx_codes = <<>>],
         [m EXCEPT !.wx_codes = <<[repr |-> "SN", value |-> "Snow"]>>],
         [m EXCEPT !.pressure_altitude = 2500],
         [m EXCEPT !.density_altitude = 2700]}

\* the snapshots fetch_weather makes of them
VariedSnapshots ==
    {fetch_weather(a, m, st, taf) :
        a \in {"KSKA"}, m \in UNION {VariedMetars(b, t) : b \in Stations, t \in 1..MaxTime},
        st \in StationResponses("KSKA"), taf \in TafResponses}

InitDC ==
    /\ pc = "data_changed"
    /\ LAST_DATA \in VariedSnapshots \cup {None}
    /\ cachedFor = IF LAST_DATA = None THEN "-" ELSE "KSKA"
    /\ \E d \in VariedSnapshots :
          upd = [running |-> TRUE, airport |-> "KSKA", force_refresh |-> FALSE,
                 caller |-> "timer", metar |-> None, station |-> None, data |-> d]
    /\ cyc = NoCycle
    /\ cfgFile = [airport |-> "KSKA", update_interval |-> 0, auto_update |-> TRUE]
    /\ current_airport = "KSKA"
    /\ last_update_age = 0
    /\ HAS_DISPLAY = TRUE
    /\ pending = <<>>
    /\ prev = NoCycle
    /\ lastShown = LAST_DATA
    /\ unserved = FALSE
    /\ passUpdates = 0
    /\ clear_invoked = FALSE
    /\ exit = Running

\* the call data_changed(data) of line 237
DataChangedCall ==
    /\ pc = "data_changed"
    /\ pc' = "data_changed_returned"
    /\ cyc' = [outcome |-> "running", result |-> data_changed(LAST_DATA, upd.data)]
    /\ UNCHANGED <<LAST_DATA, cachedFor, current_airport, last_update_age, HAS_DISPLAY, cfgFile,
                   pending, upd, prev, lastShown, unserved, passUpdates,
                   clear_invoked, exit>>

NextDC == DataChangedCall

SpecDC == InitDC /\ [][NextDC]_vars

(***************************************************************************)
(* fetch_weather on its own: one call on every combination of responses    *)
(* of the three lookups.                                                   *)
(***************************************************************************)
\* weather-code lists of an observation, the empty list and an empty
\* first value among them
ObservedWx ==
    {<<>>,
     <<[repr |-> "RA", value |-> "Rain"]>>,
     <<[repr |-> "SN", value |-> "Snow"], [repr |-> "RA", value |-> "Rain"]>>,
     <<[repr |-> "//", value |-> ""]>>}

\* a cloud layer with a base altitude (in hundreds of feet)
Layer(repr, altitude) == [repr |-> repr, altitude |-> altitude]

\* a cloud layer without the key "altitude"
LayerNoAltitude == [repr |-> "VV"]

\* a cloud layer whose "altitude" is null
LayerNullAltitude == [repr |-> "VV///", null |-> {"altitude"}]

\* cloud-layer lists of an observation
ObservedClouds ==
    {<<>>,
     <<Layer("FEW050", 50)>>,
     <<Layer("OVC099", 99)>>,
     <<Layer("BKN100", 100)>>,
     <<Layer("BKN120", 120)>>,
     <<Layer("BKN120", 120), Layer("FEW050", 50)>>,
     <<LayerNoAltitude>>,
     <<LayerNullAltitude>>,
     <<Layer("FEW050", 50), LayerNullAltitude>>,
     <<LayerNullAltitude, Layer("FEW050", 50)>>}

\* a payload without one of its keys
Without(payload, key) == [k \in DOMAIN payload \ {key} |-> payload[k]]

\* outcomes of the METAR lookup for station a: the request raises, an error
\* body, observations, an observation lacking one key, a null wind direction
MetarOutcomes(a) ==
    LET m == MetarPayload(a, <<>>, 1)
    IN  {Failed, ErrorPayload, [m EXCEPT !.wind_direction = None]}
        \cup {[m EXCEPT !.wx_codes = wx, !.clouds = cl] :
                  wx \in ObservedWx, cl \in ObservedClouds}
        \cup {Without(m, k) : k \in RequiredKeys}

\* outcomes of the station lookup for station a: the request raises, the
\* station, a body without "name"
StationOutcomes(a) == StationResponses(a) \cup {ErrorPayload}

\* outcomes of the TAF lookup: the request raises, a forecast, a body without
\* "forecast", an empty forecast list, two lines, a line without "sanitized"
TafOutcomes ==
    TafResponses \cup
    {ErrorPayload,
     [forecast |-> <<>>],
     [forecast |-> <<[sanitized |-> "TAF KSKA 021130Z 0212/0318 04008KT P6SM"],
                     [sanitized |-> "FM022000 22012G20KT P6SM"]>>],
     [forecast |-> <<[raw |-> "FM1200 04008KT P6SM"]>>]}

InitFW ==
    /\ pc = "fetch_weather"
    /\ \E a \in Stations : \E m \in MetarOutcomes(a) :
       \E st \in StationOutcomes(a) : \E taf \in TafOutcomes :
          /\ upd = [running |-> TRUE, airport |-> a, force_refresh |-> FALSE,
                    caller |-> "timer", metar |-> m, station |-> st, taf |-> taf,
                    data |-> None]
          /\ cfgFile = [airport |-> a, update_interval |-> 0, auto_update |-> TRUE]
          /\ current_airport = a
    /\ LAST_DATA = None
    /\ cachedFor = "-"
    /\ cyc = NoCycle
    /\ last_update_age = 0
    /\ HAS_DISPLAY = TRUE
    /\ pending = <<>>
    /\ prev = NoCycle
    /\ lastShown = None
    /\ unserved = FALSE
    /\ passUpdates = 0
    /\ clear_invoked = FALSE
    /\ exit = Running

\* the call fetch_weather(airport) of line 234
FetchWeatherCall ==
    /\ pc = "fetch_weather"
    /\ pc' = "fetch_weather_returned"
    /\ upd' = [upd EXCEPT
                  !.data = fetch_weather(upd.airport, upd.metar, upd.station, upd.taf)]
    /\ UNCHANGED <<LAST_DATA, cachedFor, current_airport, last_update_age, HAS_DISPLAY, cfgFile,
                   pending, cyc, prev, lastShown, unserved, passUpdates,
                   clear_invoked, exit>>

NextFW == FetchWeatherCall

SpecFW == InitFW /\ [][NextFW]_vars

(***************************************************************************)
(* The polling loop from a pass on at which the environment has settled:   *)
(* config.json keeps its airport and has auto_update on, the three lookups *)
(* succeed and keep describing the same weather, render_html, screenshot   *)
(* and display succeed, nobody interrupts.  The loop starts the pass in    *)
(* any state an earlier run leaves it in, failed cycles included.          *)
(***************************************************************************)
\* the snapshot of airport a the settled source gives, observed at time t
SettledSnapshot(a, t) ==
    fetch_weather(a, MetarPayload(a, <<[repr |-> "RA", value |-> "Rain"]>>, t),
                  [name |-> StationName(a)],
                  [forecast |-> <<[sanitized |-> "FM1200 04008KT P6SM"]>>])

\* snapshots of airport a an earlier cycle may have stored
EarlierSnapshots(a) ==
    {fetch_weather(a, m, st, taf) :
        m \in MetarPayloads(a) \ {ErrorPayload},
        st \in StationResponses(a), taf \in TafResponses}

\* line 297, at the top of a pass: the cache is empty (the cycles so far
\* failed, or an airport change cleared it) or holds a snapshot of
\* current_airport; the last cycle did not complete display()
InitLive ==
    /\ pc = "load_config"
    /\ current_airport \in Stations
    /\ cfgFile \in {c \in ValidConfigs : c.auto_update}
    /\ LAST_DATA \in EarlierSnapshots(current_airport) \cup {None}
    /\ cachedFor = IF LAST_DATA = None THEN "-" ELSE current_airport
    /\ last_update_age \in (IF LAST_DATA = None THEN 0 ELSE 1)..MaxInterval
    /\ HAS_DISPLAY = TRUE
    /\ pending = <<>>
    /\ upd = NoUpdate
    /\ cyc = NoCycle
    /\ prev = NoCycle
    /\ lastShown = LAST_DATA
    /\ unserved = FALSE
    /\ passUpdates = 0
    /\ clear_invoked = FALSE
    /\ exit = Running

\* line 73: the METAR request returns an observation
FetchMetarSettled == FetchMetar /\ upd'.metar /= ErrorPayload

\* lines 77-82: the station lookup succeeds
FetchStationSettled == FetchStation /\ upd'.station /= Failed

\* lines 85-130: the TAF lookup succeeds
FetchTafSettled == FetchTaf /\ upd'.data.tafraw /= <<"TAF not available">>

\* line 242: render_html returns
RenderHtmlSettled == RenderHtml /\ pc' = "screenshot"

\* lines 245-246: screenshot() returns True
ScreenshotSettled == Screenshot /\ pc' = "display"

NextLive ==
    \/ FetchMetarSettled
    \/ FetchStationSettled
    \/ FetchTafSettled
    \/ Decide
    \/ RenderHtmlSettled
    \/ ScreenshotSettled
    \/ Display
    \/ ReturnFromUpdate
    \/ AirportChanged
    \/ TimerUpdate
    \/ TimerIdle
    \/ Sleep

\* the process runs on: a request returns within its timeout, time.sleep ends
SpecLive == InitLive /\ [][NextLive]_vars /\ WF_vars(NextLive)

(***************************************************************************)
(* Properties.                                                             *)
(***************************************************************************)
\* two snapshots agree in every field but the timestamp
EqualButTime(a, b) ==
    \A k \in DOMAIN b \ {"time"} : a[k] = b[k]

\* update() has returned after a successful fetch
ReturnedFetched == pc = "returned" /\ cyc.fetchOk

\* the second of two consecutive cycles on one station has returned: the one
\* before completed render and display, this one fetched, was not forced, and
\* its snapshot is the previous one but for the timestamp
SecondOfIdenticalPair ==
    /\ ReturnedFetched
    /\ prev.outcome = "complete"
    /\ prev.airport = cyc.airport
    /\ ~upd.force_refresh
    /\ EqualButTime(prev.shown, upd.data)

\* C1: of two consecutive cycles on one station with snapshots equal but for
\* the timestamp, the first completing and the second not forced, render_html,
\* screenshot and display are each called once in all, in the first cycle.
C1_IdenticalPairRendersOnce ==
    SecondOfIdenticalPair =>
        /\ prev.nRender + cyc.nRender = 1
        /\ prev.nShot + cyc.nShot = 1
        /\ prev.nDisplay + cyc.nDisplay = 1
        /\ cyc.nRender = 0 /\ cyc.nShot = 0 /\ cyc.nDisplay = 0

\* the second cycle of such a pair returned, its timestamp newer than the first's
C1_Witness ==
    /\ SecondOfIdenticalPair
    /\ prev.shown.time /= upd.data.time

\* the condition of line 237 under which a cycle goes on to render, on the
\* cache the cycle started with
RenderCondition ==
    \/ upd.force_refresh
    \/ cyc.startData = None
    \/ data_changed(cyc.startData, upd.data)

\* C3: a cycle whose fetch succeeded calls the renderer exactly if it is
\* forced, nothing is cached, or data_changed reports a change; otherwise it
\* is skipped: no render, no screenshot, no display, the cache as it was.
C3_RenderIffForcedOrChanged ==
    /\ (pc \in {"render", "screenshot", "display"} => RenderCondition)
    /\ (pc \in {"screenshot", "display"} => cyc.nRender = 1)
    /\ (ReturnedFetched =>
          /\ (cyc.nRender = 1) <=> RenderCondition
          /\ (cyc.outcome = "skipped") <=> ~RenderCondition
          /\ ~RenderCondition =>
                /\ cyc.nRender = 0 /\ cyc.nShot = 0 /\ cyc.nDisplay = 0
                /\ LAST_DATA = cyc.startData)

\* a timer cycle returned on the skip path, over a cached snapshot
C3_Witness ==
    /\ ReturnedFetched
    /\ ~RenderCondition
    /\ cyc.outcome = "skipped"
    /\ LAST_DATA /= None

\* the first cycle to fetch successfully after an airport change has returned
FirstFetchedAfterChange == ReturnedFetched /\ unserved

\* C4 as claimed: after an airport change the cache is cleared and the next
\* cycle whose fetch succeeds calls the renderer and the display sink.
C4_AsClaimed ==
    /\ (unserved /\ pc \in UpdatePcs => cyc.startData = None)
    /\ (FirstFetchedAfterChange => cyc.nRender = 1 /\ cyc.nDisplay = 1)

\* outcomes of a cycle that ends between render_html and display()
RenderFailures == {"render_error", "screenshot_failed", "screenshot_error"}

\* C4 amended: after an airport change the cache is cleared, and the next
\* cycle whose fetch succeeds is not skipped: it calls render_html, and it
\* calls display() unless render_html or screenshot() fails in it; also when
\* the cycle started on the change failed and a timer cycle is the next.
C4_ChangeForcesRender ==
    /\ (unserved /\ pc \in UpdatePcs => cyc.startData = None)
    /\ (FirstFetchedAfterChange =>
          /\ cyc.outcome /= "skipped"
          /\ cyc.nRender = 1
          /\ (cyc.nDisplay = 1) <=> (cyc.outcome \notin RenderFailures))

\* the cycle started on the change failed; a later timer cycle fetched, rendered
\* and displayed
C4_Witness ==
    /\ FirstFetchedAfterChange
    /\ upd.caller = "timer"
    /\ cyc.outcome = "complete"

\* outcomes of a cycle that ends in an error
ErrorOutcomes ==
    {"fetch_error", "render_error", "screenshot_failed", "screenshot_error",
     "display_error"}

\* C5: a cycle that ends in an error (the fetch raises, the screenshot fails
\* or times out, the display driver raises) leaves LAST_DATA as it was before
\* the cycle.
C5_ErrorKeepsCache ==
    (pc = "returned" /\ cyc.outcome \in ErrorOutcomes) => LAST_DATA = cyc.startData

\* the display driver raised over a cached snapshot that the fetched one differs from
C5_Witness ==
    /\ pc = "returned"
    /\ cyc.outcome = "display_error"
    /\ LAST_DATA /= None
    /\ LAST_DATA /= upd.data

\* C6: the cache is absent or the snapshot of the last cycle that completed
\* render and display; a cycle that completes display() replaces it as a
\* whole, a cycle that skipped or failed leaves it alone.
C6_CacheIsLastDisplayed ==
    /\ (LAST_DATA = None \/ LAST_DATA = lastShown)
    /\ (pc = "returned" =>
          IF cyc.outcome = "complete"
          THEN LAST_DATA = upd.data
          ELSE LAST_DATA = cyc.startData)

\* a cycle completed display() and replaced a cached snapshot by a different one
C6_Witness ==
    /\ pc = "returned"
    /\ cyc.outcome = "complete"
    /\ cyc.startData /= None
    /\ cyc.startData /= LAST_DATA
    /\ LAST_DATA = upd.data
    /\ LAST_DATA = lastShown

\* C7: the result of a fetch during which the airport of config.json changed
\* is discarded: not rendered, not displayed, not cached.
C7_StaleFetchDiscarded ==
    (pc = "returned" /\ cyc.stale) =>
        /\ cyc.nRender = 0
        /\ cyc.nDisplay = 0
        /\ LAST_DATA = cyc.startData

\* C8: one pass of the loop starts at most one update cycle, also when an
\* airport change and an elapsed interval are both there in the pass; cycles
\* run one at a time.
C8_OneUpdatePerPass ==
    /\ passUpdates <= 1
    /\ pending = <<>>
    /\ (upd /= NoUpdate <=> pc \in UpdatePcs \cup {"returned"})

\* the pass saw an airport change with the timer due, and started one update
C8_Witness ==
    /\ pc = "metar"
    /\ upd.caller = "change"
    /\ cfgFile \in ValidConfigs
    /\ cfgFile.airport = current_airport
    /\ TimerDue(cfgFile, last_update_age)
    /\ passUpdates = 1

\* C9: no error ends the process: only the operator's shutdown does.
C9_NoErrorEndsProcess == exit.cause /= "crash"

\* C10: after a KeyboardInterrupt, whenever it came, clear_display() was
\* called before the process ended.
C10_ShutdownClearsDisplay ==
    exit.cause \in {"shutdown", "interrupt"} => clear_invoked

\* some field other than the timestamp has different values in the two snapshots
SomeFieldDiffers(stored, new) ==
    \E k \in DOMAIN new \ {"time"} : new[k] /= stored[k]

\* C2: data_changed returns true when nothing is cached; otherwise it returns
\* true exactly if a field other than "time" differs by value between the
\* cached and the new snapshot (lists as ordered sequences), so it is false of
\* two snapshots that differ in the timestamp only.
C2_ChangedIffFieldDiffers ==
    pc = "data_changed_returned" =>
        (cyc.result <=> (LAST_DATA = None \/ SomeFieldDiffers(LAST_DATA, upd.data)))

\* data_changed returned false of two snapshots with different timestamps
C2_Witness ==
    /\ pc = "data_changed_returned"
    /\ LAST_DATA /= None
    /\ LAST_DATA.time /= upd.data.time
    /\ ~cyc.result

\* fetch_weather returned a snapshot
FetchReturned == pc = "fetch_weather_returned" /\ upd.data /= Failed

\* the TAF lookup gave no forecast data: the request raised, the body has no
\* "forecast" or a line of it has no "sanitized"
ForecastMissing(taf) ==
    \/ taf = Failed
    \/ "forecast" \notin DOMAIN taf
    \/ \E i \in DOMAIN taf.forecast : "sanitized" \notin DOMAIN taf.forecast[i]

\* C11: whatever the forecast lookup gave, a returned snapshot has a non-empty
\* "tafraw", it is exactly the one-element placeholder when the forecast data
\* is missing, and the forecast lookup never makes the fetch fail.
C11_ForecastLinesNeverEmpty ==
    pc = "fetch_weather_returned" =>
        /\ upd.data = Failed =>
              \A taf \in TafOutcomes :
                  fetch_weather(upd.airport, upd.metar, upd.station, taf) = Failed
        /\ upd.data /= Failed =>
              /\ upd.data.tafraw /= <<>>
              /\ ForecastMissing(upd.taf) =>
                    upd.data.tafraw = <<"TAF not available">>

\* the station lookup gave no name: the request raised or the body has no "name"
StationMissing(station) == station = Failed \/ "name" \notin DOMAIN station

\* what the same call returns when the station and TAF lookups both succeed
WithBothLookups ==
    fetch_weather(upd.airport, upd.metar, [name |-> StationName(upd.airport)],
                  [forecast |-> <<[sanitized |-> "FM1200 04008KT P6SM"]>>])

\* C12: a METAR request that raises or an observation lacking a required key
\* makes fetch_weather fail; a failed or malformed station or TAF lookup never
\* does: the call fails exactly when it fails with both lookups succeeding,
\* the station name falls back to the requested identifier, the forecast to
\* the placeholder, and every other field is what it is with both lookups
\* succeeding.
C12_LookupsFailIndependently ==
    pc = "fetch_weather_returned" =>
        /\ (upd.metar = Failed \/ ~(RequiredKeys \subseteq DOMAIN upd.metar)) =>
              upd.data = Failed
        /\ (upd.data = Failed) <=> (WithBothLookups = Failed)
        /\ upd.data /= Failed =>
              /\ StationMissing(upd.station) => upd.data.ArptName = upd.airport
              /\ ForecastMissing(upd.taf) => upd.data.tafraw = <<"TAF not available">>
              /\ \A i \in DOMAIN SnapshotKeys :
                    SnapshotKeys[i] \notin {"ArptName", "tafraw"} =>
                        upd.data[SnapshotKeys[i]] = WithBothLookups[SnapshotKeys[i]]

\* a fetch whose station request raised and whose TAF body has no forecast
\* returned a snapshot with both fallbacks
C12_Witness ==
    /\ FetchReturned
    /\ upd.station = Failed
    /\ upd.taf = ErrorPayload
    /\ upd.data.ArptName = upd.airport
    /\ upd.data.tafraw = <<"TAF not available">>
    /\ upd.data.obs = "Rain"

\* the METAR lookup returned an observation: every key lines 93-129 read is
\* there and none of the subscripted ones is null
IsObservation(metar) ==
    /\ metar /= Failed
    /\ RequiredKeys \subseteq DOMAIN metar
    /\ \A k \in SubscriptedKeys : metar[k] /= None

\* at least one cloud layer has a base altitude below 100
HasLowLayer(clouds) ==
    \E i \in DOMAIN clouds :
        "altitude" \in DOMAIN clouds[i] /\ clouds[i].altitude < 100

\* C13: for every observation "obs" is the first weather code's value when the
\* weather-code list is non-empty; when it is empty "obs" is "CLOUDY" if some
\* cloud layer has a base altitude below 100 and "SKY CLEAR" otherwise, also
\* with no layers and with a layer that reports no altitude.
C13_PrimaryCondition ==
    (pc = "fetch_weather_returned" /\ IsObservation(upd.metar)) =>
        /\ upd.data /= Failed
        /\ upd.data.obs =
              IF upd.metar.wx_codes /= <<>> THEN upd.metar.wx_codes[1].value
              ELSE IF HasLowLayer(upd.metar.clouds) THEN "CLOUDY"
              ELSE "SKY CLEAR"

\* C14: in every state of the polling loop a stored snapshot was written by an
\* update() called for the current airport: an airport change never leaves
\* the old airport's snapshot stored next to the new identifier.
C14_CacheIsForCurrentAirport ==
    /\ (LAST_DATA = None) <=> (cachedFor = "-")
    /\ LAST_DATA /= None => cachedFor = current_airport

\* after a cycle that stored a snapshot of one airport, the cycle started on a
\* change to another airport found the cache empty and stored its own snapshot
C14_Witness ==
    /\ pc = "returned"
    /\ upd.caller = "change"
    /\ cyc.outcome = "complete"
    /\ prev.outcome = "complete"
    /\ prev.airport /= current_airport
    /\ cyc.startData = None
    /\ LAST_DATA = upd.data
    /\ cachedFor = current_airport

\* the settled source's snapshot of the airport of config.json differs from
\* the stored one in a field other than the timestamp, or nothing is stored
SourceDiffers ==
    \/ LAST_DATA = None
    \/ \A t \in 1..MaxTime :
          ~EqualButTime(LAST_DATA, SettledSnapshot(cfgFile.airport, t))

\* a cycle has rendered and displayed the source's snapshot and stored it
AdoptedByCycle ==
    /\ pc = "returned"
    /\ cyc.outcome = "complete"
    /\ cyc.nRender = 1
    /\ cyc.nDisplay = 1
    /\ upd.airport = cfgFile.airport
    /\ LAST_DATA = upd.data
    /\ LAST_DATA = lastShown
    /\ ~SourceDiffers

\* C15: once the airport of config.json stays fixed with auto_update on, the
\* source keeps returning a snapshot that differs from the stored one in a
\* field other than the timestamp, and fetch, render and display no longer
\* fail, a cycle eventually renders, displays and stores that snapshot,
\* whatever cycles failed before.
C15_SnapshotEventuallyAdopted == SourceDiffers ~> AdoptedByCycle

\* a timer-driven cycle replaced a stored snapshot by the source's different one
C15_Witness ==
    /\ AdoptedByCycle
    /\ upd.caller = "timer"
    /\ cyc.startData /= None
    /\ ~EqualButTime(cyc.startData, LAST_DATA)

====
